---- MODULE Spec2Model ----
(***************************************************************************)
(* A model of the dtcdecode.com scraper, src/dtcdecode_parsers/Landrover.py *)
(*                                                                         *)
(* Text is modelled as a sequence of one-character strings, so that case   *)
(* folding, splitting, regular-expression matching and hexadecimal         *)
(* parsing/formatting are computed character by character, as the code     *)
(* computes them.                                                          *)
(***************************************************************************)
EXTENDS Integers, Sequences, FiniteSets, TLC

(***************************************************************************)
(* Bounds of the model                                                     *)
(***************************************************************************)
\* how many of HexSample's characters the codes under test are built from
NumHexChars == 3
\* how many of EditSample's characters an edit of a code may put in
NumEditChars == 3
\* the most anchors the site's listing pages hold together
MaxAnchors == 3
\* the largest page cap tried (0 stands for no cap)
MaxPagesCap == 2
\* how many successive page loads of one URL the transport's behaviour is
\* chosen for (a later load behaves like the last one chosen)
MaxGotos == 1
\* the most anchors the root page holds in a whole run of scrape_oem
MaxRunAnchors == 2
\* the largest --flush-every tried
MaxFlushEvery == 2
\* the most tables a detail page holds
MaxTables == 1
\* the most file operations that fail (OSError) in one run
MaxIoFaults == 1
\* the most elements a page handed to extract_sections holds
MaxElems == 4
\* the most body rows of a table handed to html_table_to_data
MaxRows == 3
\* the most cells of a table row
MaxWidth == 3
\* the most namespaces given to main with --oems
MaxOems == 2
\* the most page loads of one call of scrape_oem in the model of main
MaxRunGets == 2

(***************************************************************************)
(* Characters and strings                                                  *)
(***************************************************************************)
HexUpper == <<"0","1","2","3","4","5","6","7","8","9","A","B","C","D","E","F">>

\* str.upper() on the letters the model's texts are made of
CharUpper(c) ==
  CASE c = "a" -> "A" [] c = "b" -> "B" [] c = "c" -> "C" [] c = "d" -> "D"
    [] c = "e" -> "E" [] c = "f" -> "F" [] c = "g" -> "G" [] c = "p" -> "P"
    [] c = "u" -> "U" [] c = "z" -> "Z" [] c = "r" -> "R"
    [] OTHER -> c

\* str.lower() on the same letters
CharLower(c) ==
  CASE c = "A" -> "a" [] c = "B" -> "b" [] c = "C" -> "c" [] c = "D" -> "d"
    [] c = "E" -> "e" [] c = "F" -> "f" [] c = "G" -> "g" [] c = "P" -> "p"
    [] c = "U" -> "u" [] c = "Z" -> "z" [] c = "R" -> "r"
    [] OTHER -> c

StrUpper(s) == [i \in 1..Len(s) |-> CharUpper(s[i])]
StrLower(s) == [i \in 1..Len(s) |-> CharLower(s[i])]

IsHexChar(c) == \E i \in 1..16 : HexUpper[i] = CharUpper(c)
HexVal(c) == (CHOOSE i \in 1..16 : HexUpper[i] = CharUpper(c)) - 1

\* the characters of s from position a on (Python's s[a-1:])
Drop(s, a) == IF a > Len(s) THEN <<>> ELSE SubSeq(s, a, Len(s))

\* the position of the first c in s, 0 when there is none
RECURSIVE IndexFrom(_, _, _)
IndexFrom(s, c, i) ==
  IF i > Len(s) THEN 0
  ELSE IF s[i] = c THEN i
  ELSE IndexFrom(s, c, i + 1)

\* str.split(sep) for a one-character separator: the list of parts
RECURSIVE StrSplit(_, _)
StrSplit(s, sep) ==
  LET k == IndexFrom(s, sep, 1)
  IN IF k = 0 THEN <<s>>
     ELSE <<SubSeq(s, 1, k - 1)>> \o StrSplit(Drop(s, k + 1), sep)

\* int(s, 16) of a text of hexadecimal digits
RECURSIVE HexToInt(_)
HexToInt(s) ==
  IF Len(s) = 0 THEN 0
  ELSE 16 * HexToInt(SubSeq(s, 1, Len(s) - 1)) + HexVal(s[Len(s)])

\* int(s, 16) raises ValueError on the empty text and on a text with a
\* character that is no hexadecimal digit.  (The model's texts hold no sign,
\* blank, underscore or "x", which int() reads as well.)
IntParses(s) == Len(s) > 0 /\ \A i \in 1..Len(s) : IsHexChar(s[i])

\* format(n, "X")
RECURSIVE HexDigitsOf(_)
HexDigitsOf(n) ==
  IF n < 16 THEN <<HexUpper[n + 1]>>
  ELSE HexDigitsOf(n \div 16) \o <<HexUpper[(n % 16) + 1]>>

\* format(n, "02X"): at least two digits, zero-padded
Format02X(n) == IF n < 16 THEN <<"0">> \o HexDigitsOf(n) ELSE HexDigitsOf(n)

(***************************************************************************)
(* CodeCodec                                                               *)
(***************************************************************************)
\* DTC_SEGMENT_RE.match(s): ^[PCBU][0-9A-F]{4}-[0-9A-F]{2}$, re.IGNORECASE
DTC_SEGMENT_RE(s) ==
  /\ Len(s) = 8
  /\ CharUpper(s[1]) \in {"P", "C", "B", "U"}
  /\ \A i \in 2..5 : IsHexChar(s[i])
  /\ s[6] = "-"
  /\ IsHexChar(s[7])
  /\ IsHexChar(s[8])

nibble_map == [l \in {"P", "C", "B", "U"} |->
                 CASE l = "P" -> 0 [] l = "C" -> 1 [] l = "B" -> 2 [] l = "U" -> 3]

Raised(kind) == [ok |-> FALSE, err |-> kind, text |-> <<>>]
Returned(t) == [ok |-> TRUE, err |-> "", text |-> t]

\* the triplet text with the high byte left unmasked
TripletTextNoMask(value, low) ==
  Format02X(value \div 256) \o <<" ">> \o Format02X(value % 256) \o <<" ">> \o Format02X(low)

\* high = (value >> 8) & 0xFF; mid = value & 0xFF; the text
\* f"{high:02X} {mid:02X} {low:02X}"
TripletText(value, low) ==
  LET high == (value \div 256) % 256
      mid == value % 256
  IN Format02X(high) \o <<" ">> \o Format02X(mid) \o <<" ">> \o Format02X(low)

\* dtc_to_hex_triplet(dtc): the text returned, or the exception raised
dtc_to_hex_triplet(dtc) ==
  LET parts == StrSplit(StrUpper(dtc), "-")
  IN IF Len(parts) # 2 THEN Raised("ValueError")
     ELSE LET base == parts[1]
              fmi == parts[2]
          IN IF Len(base) = 0 THEN Raised("IndexError")
             ELSE IF base[1] \notin DOMAIN nibble_map THEN Raised("KeyError")
             ELSE IF ~IntParses(Drop(base, 2)) \/ ~IntParses(fmi)
                  THEN Raised("ValueError")
             ELSE Returned(TripletText(nibble_map[base[1]] * 4096
                                         + HexToInt(Drop(base, 2)),
                                       HexToInt(fmi)))

(***************************************************************************)
(* ContentExtractor: the code and definition of a detail page              *)
(***************************************************************************)
None == <<"None">>

IsSpace(c) == c = " "
IsDash(c) == c = "-" \/ c = "~"      \* "~" stands for the en dash

\* the position after the blanks that start at position i
RECURSIVE SkipSpaces(_, _)
SkipSpaces(s, i) ==
  IF i <= Len(s) /\ IsSpace(s[i]) THEN SkipSpaces(s, i + 1) ELSE i

\* re.match(r"^([PCBU][0-9A-F]{4}-[0-9A-F]{2})\s*[–-]\s*(.+)$", text, re.I)
\* on a text whose blanks are collapsed and stripped
HeadingMatch(text) ==
  /\ Len(text) >= 8
  /\ DTC_SEGMENT_RE(SubSeq(text, 1, 8))
  /\ LET d == SkipSpaces(text, 9)
     IN /\ d <= Len(text)
        /\ IsDash(text[d])
        /\ d < Len(text)

\* text.split()[0]: the first blank-separated token, <<>> when there is none
FirstToken(text) ==
  LET k == IndexFrom(text, " ", 1)
  IN IF k = 0 THEN text ELSE SubSeq(text, 1, k - 1)

\* the first position where a code-shaped token starts, 0 when there is none:
\* re.search(r"([PCBU][0-9A-F]{4}-[0-9A-F]{2})", t, re.I)
RECURSIVE SearchCode(_, _)
SearchCode(t, i) ==
  IF i + 7 > Len(t) THEN 0
  ELSE IF DTC_SEGMENT_RE(SubSeq(t, i, i + 7)) THEN i
  ELSE SearchCode(t, i + 1)

\* parse_title_and_definition(soup): the code found in the h1 or in the
\* title, None when neither holds one.  h1 and title are the elements'
\* collapsed texts, None for an absent element.
parse_title_and_definition(h1, title) ==
  IF h1 # None /\ HeadingMatch(h1) THEN StrUpper(SubSeq(h1, 1, 8))
  ELSE IF h1 # None /\ Len(FirstToken(h1)) > 0 /\ DTC_SEGMENT_RE(FirstToken(h1))
       THEN StrUpper(FirstToken(h1))
  ELSE IF title # None /\ SearchCode(title, 1) # 0
       THEN StrUpper(SubSeq(title, SearchCode(title, 1), SearchCode(title, 1) + 7))
  ELSE None

\* s.rstrip("/")
RECURSIVE RStripSlash(_)
RStripSlash(s) ==
  IF Len(s) > 0 /\ s[Len(s)] = "/" THEN RStripSlash(SubSeq(s, 1, Len(s) - 1)) ELSE s

\* url.rstrip("/").split("/")[-1]
LastSegment(url) ==
  LET parts == StrSplit(RStripSlash(url), "/") IN parts[Len(parts)]

Absent == <<"absent">>

\* FMI_MEANINGS.get(fmi.upper(), "")
fmi_meaning(fmi) ==
  LET f == StrUpper(fmi)
  IN CASE f = <<"0","0">> -> "General failure / no sub-type"
       [] f = <<"1","1">> -> "Circuit short to ground"
       [] f = <<"1","2">> -> "Circuit short to battery/positive"
       [] f = <<"1","3">> -> "Circuit open"
       [] f = <<"7","A">> -> "Module not configured / software incompatible"
       [] f = <<"7","F">> -> "Security/component protection fault"
       [] OTHER -> ""

PdpNoGuard(h1, title, url) ==
  LET found == parse_title_and_definition(h1, title)
      dtc == IF found = None THEN StrUpper(LastSegment(url)) ELSE found
      parts == StrSplit(StrUpper(dtc), "-")
      conv == dtc_to_hex_triplet(dtc)
  IN [dtc |-> dtc, url |-> url,
      base_code |-> parts[1],
      fmi_hex |-> parts[Len(parts)],
      fmi_meaning |-> fmi_meaning(parts[Len(parts)]),
      hex_triplet |-> IF conv.ok THEN conv.text ELSE Absent]

\* parse_detail_page(html, url): the record's code fields (its sections are
\* modelled with the run).  A key the code does not set is Absent.
parse_detail_page(h1, title, url) ==
  LET found == parse_title_and_definition(h1, title)
      dtc == IF found = None THEN StrUpper(LastSegment(url)) ELSE found
  IN IF DTC_SEGMENT_RE(dtc)
     THEN LET parts == StrSplit(StrUpper(dtc), "-")
              conv == dtc_to_hex_triplet(dtc)
          IN [dtc |-> dtc, url |-> url,
              base_code |-> parts[1],
              fmi_hex |-> parts[2],
              fmi_meaning |-> fmi_meaning(parts[2]),
              hex_triplet |-> IF conv.ok THEN conv.text ELSE Absent]
     ELSE [dtc |-> dtc, url |-> url, base_code |-> Absent, fmi_hex |-> Absent,
           fmi_meaning |-> Absent, hex_triplet |-> Absent]

(***************************************************************************)
(* URLs.  A URL is the text that follows BASE ("https://www.dtcdecode.com"):*)
(* a path and, after "?", a query.                                         *)
(***************************************************************************)
\* the model's characters in the order of their code points
AsciiOrder ==
  <<" ", "&", "-", "/", "0", "1", "2", "3", "4", "5", "6", "7", "8", "9", "=", "?",
    "A", "B", "C", "D", "E", "F", "G", "J", "L", "P", "R", "S", "U", "Z",
    "a", "b", "c", "d", "e", "f", "g", "p", "r", "u", "z", "|", "~">>
CharOrd(c) == CHOOSE i \in 1..Len(AsciiOrder) : AsciiOrder[i] = c

\* a < b for two texts (Python's str comparison)
RECURSIVE StrLessFrom(_, _, _)
StrLessFrom(a, b, i) ==
  IF i > Len(b) THEN FALSE
  ELSE IF i > Len(a) THEN TRUE
  ELSE IF a[i] = b[i] THEN StrLessFrom(a, b, i + 1)
  ELSE CharOrd(a[i]) < CharOrd(b[i])
StrLess(a, b) == StrLessFrom(a, b, 1)

\* sorted(S) for a set of texts
RECURSIVE SortedTexts(_)
SortedTexts(S) ==
  IF S = {} THEN <<>>
  ELSE LET m == CHOOSE x \in S : \A y \in S : x = y \/ StrLess(x, y)
       IN <<m>> \o SortedTexts(S \ {m})

\* sorted(S, key=str.lower) for a set S of texts: texts with equal keys keep
\* the set's iteration order, which the hash seed of the process decides, so
\* every order of them is a possible result
RECURSIVE SortedByLower(_)
SortedByLower(S) ==
  IF S = {} THEN {<<>>}
  ELSE UNION {{<<m>> \o r : r \in SortedByLower(S \ {m})} :
                m \in {x \in S : \A y \in S : ~StrLess(StrLower(y), StrLower(x))}}

ElemsOf(s) == {s[i] : i \in 1..Len(s)}

StartsWith(s, prefix) ==
  Len(s) >= Len(prefix) /\ SubSeq(s, 1, Len(prefix)) = prefix

\* urlparse(u).path and urlparse(u).query
PathOf(u) ==
  LET k == IndexFrom(u, "?", 1) IN IF k = 0 THEN u ELSE SubSeq(u, 1, k - 1)
QueryOf(u) ==
  LET k == IndexFrom(u, "?", 1) IN IF k = 0 THEN <<>> ELSE Drop(u, k + 1)

\* the one element of a one-element set
TheOne(S) == CHOOSE x \in S : TRUE

\* the (name, value) pairs of a query, in order: the parts between "&", each
\* cut at its first "="; empty parts are skipped, a part with no "=" has a
\* blank value (keep_blank_values=True)
PairsOf(parts) ==
  TheOne({[i \in 1..Len(ps) |->
             LET e == IndexFrom(ps[i], "=", 1)
             IN IF e = 0 THEN <<ps[i], <<>> >>
                ELSE <<SubSeq(ps[i], 1, e - 1), Drop(ps[i], e + 1)>>] :
          ps \in {SelectSeq(parts, LAMBDA part : Len(part) # 0)}})

\* parse_qs(query): each name with the first of its values (v[0])
FirstValue(pairs, name) ==
  pairs[CHOOSE i \in 1..Len(pairs) :
          pairs[i][1] = name /\ \A j \in 1..(i - 1) : pairs[j][1] # name][2]

\* urlencode(sorted(items)) for names and values of letters and digits: the
\* items in the order of their names, joined by "&"
RECURSIVE EncodeSorted(_, _)
EncodeSorted(names, pairs) ==
  IF names = {} THEN <<>>
  ELSE TheOne({n \o <<"=">> \o FirstValue(pairs, n)
                 \o (IF names = {n} THEN <<>>
                     ELSE <<"&">> \o EncodeSorted(names \ {n}, pairs)) :
               n \in {x \in names : \A y \in names : x = y \/ StrLess(x, y)}})

NuUnsortedQuery(u) ==
  LET query == QueryOf(u)
  IN RStripSlash(PathOf(u)) \o (IF query = <<>> THEN <<>> ELSE <<"?">> \o query)

\* normalize_url(u): the path without its trailing slashes, the query with
\* its parameters sorted by name, no fragment
normalize_url(u) ==
  TheOne({RStripSlash(PathOf(u)) \o (IF q_sorted = <<>> THEN <<>> ELSE <<"?">> \o q_sorted) :
            q_sorted \in {EncodeSorted({pairs[i][1] : i \in 1..Len(pairs)}, pairs) :
                            pairs \in {PairsOf(StrSplit(QueryOf(u), "&"))}}})

(***************************************************************************)
(* The site                                                                *)
(***************************************************************************)
oem_slug == <<"L", "R">>
list_url == <<"/">> \o oem_slug

UrlDetailUpper == <<"/","L","R","/","P","0","5","F","F","-","0","0">>
UrlDetailLower == <<"/","L","R","/","p","0","5","f","f","-","0","0">>
UrlDetailOther == <<"/","L","R","/","C","1","A","2","B","-","1","1">>
UrlPageAB == <<"/","L","R","?","a","=","1","&","b","=","2">>
UrlPageBA == <<"/","L","R","?","b","=","2","&","a","=","1">>
UrlRootSlash == <<"/","L","R","/">>
UrlOtherOem == <<"/","J","G">>

\* the hrefs an anchor of the site may carry
SiteUrls == {UrlDetailUpper, UrlDetailLower, UrlPageAB, UrlPageBA, UrlOtherOem}
\* the words a listing page's visible text may hold
SiteWords == {<<"p","0","5","f","f","-","0","0">>}

\* the listing pages of the site, by normalized URL
ListingKeys == {normalize_url(list_url), normalize_url(UrlPageAB)}

\* a page: its anchors' hrefs in document order, and the words of its text
Page(anchors, words) == [anchors |-> anchors, words |-> words]
\* a detail page links back to the listing
DetailPage == Page(<<UrlRootSlash>>, {})

SeqsUpTo(S, n) == UNION {[1..k -> S] : k \in 0..n}

(***************************************************************************)
(* Discovery                                                               *)
(***************************************************************************)
\* dtc_pat.search(path): the path ends with /<oem_slug>/<code>, any case
dtc_pat(path) ==
  LET n == Len(path)
      head == <<"/">> \o oem_slug \o <<"/">>
  IN /\ n >= Len(head) + 8
     /\ DTC_SEGMENT_RE(SubSeq(path, n - 7, n))
     /\ StrUpper(SubSeq(path, n - 7 - Len(head), n - 8)) = StrUpper(head)

\* get_dtc_links(oem_slug) on the page the browser shows: the anchors'
\* hrefs, then one URL for every code-shaped word of the text, normalized
\* and filtered by dtc_pat; sorted(set(cleaned))
get_dtc_links(page) ==
  LET fromText == {<<"/">> \o oem_slug \o <<"/">> \o StrUpper(w) :
                     w \in {x \in page.words : DTC_SEGMENT_RE(x)}}
      hrefs == ElemsOf(page.anchors) \cup fromText
  IN SortedTexts({normalize_url(u) : u \in {h \in hrefs : dtc_pat(PathOf(normalize_url(h)))}})

\* extract_dtc_links_playwright, after its fetch of the listing page
extract_dtc_links_playwright(page) ==
  LET links_ == get_dtc_links(page)
  IN SortedTexts({normalize_url(u) : u \in {l \in ElemsOf(links_) : dtc_pat(PathOf(l))}})

VARIABLES
  code,        \* codec: the text handed to the codec
  stage,       \* codec: seed, edited, encoded, parsed
  hexOut,      \* codec: what dtc_to_hex_triplet returned or raised
  record,      \* codec: what parse_detail_page returned
  status,      \* of the run: idle, running, done, interrupted, crashed
  pc,          \* where scrape_oem is (where it was, once the run has ended)
  site,        \* the site's listing pages, by normalized URL
  max_pages,   \* --max-pages, 0 for None
  no_warmup,   \* --no-warmup
  flush_every, \* --flush-every
  lastGet,     \* what the last call of fetcher.get did
  seen,        \* discover_listing_pages: normalized URLs visited
  q,           \* discover_listing_pages: the queue
  pages,       \* discover_listing_pages: the pages recorded
  dpos,        \* discover_listing_and_links: position in pages
  all_links,   \* discover_listing_and_links: links collected
  getLog,      \* the URLs fetched by discovery, in order
  links,       \* scrape_oem: the detail links
  pos,         \* scrape_oem: position in links (the for loop's index)
  rec,         \* scrape_oem: the record of links[pos]
  wrote,       \* scrape_oem: records written by write_record
  records,     \* scrape_oem: the records appended to the aggregate list
  jsonl,       \* the lines written to <OEM>_dtcs.ndjson
  wide,        \* the rows written to <OEM>_dtcs_with_hex.csv
  long,        \* the rows written to <OEM>_dtcs_sections_long.csv
  tables,      \* the files written under tables/<OEM>/<DTC>/
  flushed,     \* how much of jsonl, wide and long has been flushed
  closed,      \* the three files are closed
  aggregate,   \* <OEM>_dtcs.json: whether it is written, and its content
  ioFaults,    \* file operations that failed so far
  soup,        \* parsing: the elements of the page handed to extract_sections
  table_tag,   \* parsing: the table handed to html_table_to_data
  sections,    \* parsing: what extract_sections returned
  table_data,  \* parsing: what html_table_to_data returned
  pstage,      \* parsing: idle, page, table, sections, data
  oems,        \* main: --oems
  oem_pos,     \* main: position in oems (the for loop's index)
  fetcher,     \* main: the PlaywrightFetcher object and its browser state
  sessions,    \* main: the fetcher state each call of scrape_oem started with
  mstage       \* main: idle, loop, scraping, closed

codecVars == <<code, stage, hexOut, record>>
argVars == <<site, max_pages, no_warmup, flush_every>>
discVars == <<seen, q, pages, dpos, all_links, getLog, links>>
loopVars == <<pos, rec, wrote, records>>
fileVars == <<jsonl, wide, long, tables, flushed, closed, aggregate, ioFaults>>
runVars == <<status, pc, argVars, lastGet, discVars, loopVars, fileVars>>
parseVars == <<soup, table_tag, sections, table_data, pstage>>
mainVars == <<oems, oem_pos, fetcher, sessions, mstage>>
vars == <<codecVars, runVars, parseVars, mainVars>>

NoResult == [ok |-> FALSE, err |-> "not called", text |-> <<>>]
NoGet == [attempts |-> 0, raised |-> FALSE, errAttempt |-> 0, shown |-> "none"]
NoRec == [dtc |-> <<>>, url |-> <<>>, tables |-> 0, rows |-> 0]
NoAggregate == [written |-> FALSE, content |-> <<>>]

CodecIdle ==
  /\ code = <<>>
  /\ stage = "idle"
  /\ hexOut = NoResult
  /\ record = <<>>

DiscoveryStart ==
  /\ seen = {}
  /\ q = <<list_url>>
  /\ pages = <<>>
  /\ dpos = 0
  /\ all_links = <<>>
  /\ links = <<>>
  /\ getLog = <<>>

\* scrape_oem has opened its three files and written the CSV headers
FilesOpened ==
  /\ pos = 0
  /\ rec = NoRec
  /\ wrote = 0
  /\ records = <<>>
  /\ jsonl = <<>>
  /\ wide = <<>>
  /\ long = <<>>
  /\ tables = <<>>
  /\ flushed = [jsonl |-> 0, wide |-> 0, long |-> 0]
  /\ closed = FALSE
  /\ aggregate = NoAggregate
  /\ ioFaults = 0

RunIdle ==
  /\ status = "idle"
  /\ pc = "idle"
  /\ site = <<>>
  /\ max_pages = 0
  /\ no_warmup = FALSE
  /\ flush_every = 1
  /\ lastGet = NoGet
  /\ DiscoveryStart
  /\ FilesOpened

NoFetcher == [id |-> 0, page |-> <<>>, cookies |-> {}, open |-> FALSE]

ParseIdle ==
  /\ soup = <<>>
  /\ table_tag = <<>>
  /\ sections = <<>>
  /\ table_data = <<>>
  /\ pstage = "idle"

MainIdle ==
  /\ oems = <<>>
  /\ oem_pos = 0
  /\ fetcher = NoFetcher
  /\ sessions = <<>>
  /\ mstage = "idle"

(***************************************************************************)
(* Fetcher                                                                 *)
(***************************************************************************)
\* what one page load (page.goto) may do: load the page, load a block page
\* (an HTTP 403, 429 or 5xx response, which page.goto returns like any
\* other), or raise (timeout, network error)
Outcomes == {"ok", "blocked", "error"}
\* the transport's behaviour for one URL: the outcome of each successive load
Transports == [1..MaxGotos -> Outcomes]
OutcomeAt(t, n) == IF n <= Len(t) THEN t[n] ELSE t[Len(t)]

\* a get that loads again after a load that raised, five loads at most
RECURSIVE RetryFrom(_, _)
RetryFrom(t, n) ==
  IF OutcomeAt(t, n) = "error" /\ n < 5 THEN RetryFrom(t, n + 1)
  ELSE [attempts |-> n, raised |-> OutcomeAt(t, n) = "error",
        errAttempt |-> IF OutcomeAt(t, n) = "error" THEN n ELSE 0,
        shown |-> OutcomeAt(t, n)]
GetWithRetry(t) == RetryFrom(t, 1)

\* PlaywrightFetcher.get(url) under transport behaviour t: one page.goto;
\* its exception, if any, leaves get; otherwise page.content() is returned,
\* whatever the response's status.  attempts counts the page.goto calls,
\* errAttempt is the call whose exception left get (0: none), shown is what
\* the browser shows afterwards.
get(t) ==
  [attempts |-> 1, raised |-> t[1] = "error",
   errAttempt |-> IF t[1] = "error" THEN 1 ELSE 0, shown |-> t[1]]

\* the outcome of the load whose page the browser shows after get returned
Shown(g) == g.shown

BlockPage == Page(<<>>, {})

\* the page the browser shows after get(url) returned g
PageAt(url, g) ==
  IF Shown(g) = "blocked" THEN BlockPage
  ELSE IF normalize_url(url) \in DOMAIN site THEN site[normalize_url(url)]
  ELSE DetailPage

(***************************************************************************)
(* discover_listing_pages and discover_listing_and_links                   *)
(***************************************************************************)
\* the sites under test: the root page and the second listing page hold at
\* most n anchors together; the root page's text may hold words
Sites(n) ==
  {[k \in ListingKeys |-> IF k = normalize_url(list_url) THEN Page(ab[1], w) ELSE Page(ab[2], {})] :
     ab \in UNION {[1..ka -> SiteUrls] \X SeqsUpTo(SiteUrls, n - ka) : ka \in 0..n},
     w \in SUBSET SiteWords}

InitDiscover ==
  /\ CodecIdle
  /\ ParseIdle
  /\ MainIdle
  /\ status = "running"
  /\ pc = "bfs"
  /\ site \in Sites(MaxAnchors)
  /\ max_pages \in 0..MaxPagesCap
  /\ no_warmup = TRUE
  /\ flush_every = 1
  /\ lastGet = NoGet
  /\ DiscoveryStart
  /\ FilesOpened

\* discover_listing_pages returns sorted(set(pages)); discover_listing_and_links
\* starts its loop over them
ReturnPages(ps) ==
  /\ pages' = SortedTexts(ElemsOf(ps))
  /\ dpos' = 1
  /\ pc' = "extract"

\* the hrefs of a page that the crawl enqueues: those that start with list_url
Enqueued(anchors) == SelectSeq(anchors, LAMBDA h : StartsWith(h, list_url))

\* an exception leaves scrape_oem before its try block: nothing closes the files
Propagate ==
  /\ status' = "crashed"
  /\ UNCHANGED pc

\* a while loop whose cap test lets one page more through
BfsStepLateCap ==
  /\ status = "running"
  /\ pc = "bfs"
  /\ q # <<>>
  /\ LET url == Head(q)
         nu == normalize_url(url)
     IN IF nu \in seen
        THEN /\ q' = Tail(q)
             /\ UNCHANGED <<status, pc, seen, pages, dpos, getLog, lastGet>>
        ELSE /\ seen' = seen \cup {nu}
             /\ getLog' = Append(getLog, url)
             /\ \E t \in Transports :
                  /\ lastGet' = get(t)
                  /\ IF get(t).raised
                     THEN /\ Propagate
                          /\ q' = Tail(q)
                          /\ UNCHANGED <<pages, dpos>>
                     ELSE IF max_pages # 0 /\ Len(pages) + 1 > max_pages
                     THEN /\ q' = Tail(q)
                          /\ ReturnPages(Append(pages, url))
                          /\ UNCHANGED status
                     ELSE /\ q' = Tail(q) \o Enqueued(PageAt(url, get(t)).anchors)
                          /\ pages' = Append(pages, url)
                          /\ UNCHANGED <<status, pc, dpos>>
  /\ UNCHANGED <<argVars, all_links, links, loopVars, fileVars>>
  /\ UNCHANGED <<codecVars, parseVars, mainVars>>

\* a while loop that remembers the URLs as they were enqueued, not normalized
BfsStepRawSeen ==
  /\ status = "running"
  /\ pc = "bfs"
  /\ q # <<>>
  /\ LET url == Head(q)
     IN IF url \in seen
        THEN /\ q' = Tail(q)
             /\ UNCHANGED <<status, pc, seen, pages, dpos, getLog, lastGet>>
        ELSE /\ seen' = seen \cup {url}
             /\ getLog' = Append(getLog, url)
             /\ \E t \in Transports :
                  /\ lastGet' = get(t)
                  /\ IF get(t).raised
                     THEN /\ Propagate
                          /\ q' = Tail(q)
                          /\ UNCHANGED <<pages, dpos>>
                     ELSE IF max_pages # 0 /\ Len(pages) + 1 >= max_pages
                     THEN /\ q' = Tail(q)
                          /\ ReturnPages(Append(pages, url))
                          /\ UNCHANGED status
                     ELSE /\ q' = Tail(q) \o Enqueued(PageAt(url, get(t)).anchors)
                          /\ pages' = Append(pages, url)
                          /\ UNCHANGED <<status, pc, dpos>>
  /\ UNCHANGED <<argVars, all_links, links, loopVars, fileVars>>
  /\ UNCHANGED <<codecVars, parseVars, mainVars>>

\* one turn of the while loop of discover_listing_pages
BfsStep ==
  /\ status = "running"
  /\ pc = "bfs"
  /\ q # <<>>
  /\ LET url == Head(q)
         nu == normalize_url(url)
     IN IF nu \in seen
        THEN /\ q' = Tail(q)
             /\ UNCHANGED <<status, pc, seen, pages, dpos, getLog, lastGet>>
        ELSE /\ seen' = seen \cup {nu}
             /\ getLog' = Append(getLog, url)
             /\ \E t \in Transports :
                  /\ lastGet' = get(t)
                  /\ IF get(t).raised
                     THEN /\ Propagate
                          /\ q' = Tail(q)
                          /\ UNCHANGED <<pages, dpos>>
                     ELSE IF max_pages # 0 /\ Len(pages) + 1 >= max_pages
                     THEN /\ q' = Tail(q)
                          /\ ReturnPages(Append(pages, url))
                          /\ UNCHANGED status
                     ELSE /\ q' = Tail(q) \o Enqueued(PageAt(url, get(t)).anchors)
                          /\ pages' = Append(pages, url)
                          /\ UNCHANGED <<status, pc, dpos>>
  /\ UNCHANGED <<argVars, all_links, links, loopVars, fileVars>>
  /\ UNCHANGED <<codecVars, parseVars, mainVars>>

\* the queue is empty: discover_listing_pages returns
BfsReturn ==
  /\ status = "running"
  /\ pc = "bfs"
  /\ q = <<>>
  /\ ReturnPages(pages)
  /\ UNCHANGED <<status, argVars, lastGet, seen, q, all_links, getLog, links>>
  /\ UNCHANGED <<loopVars, fileVars>>
  /\ UNCHANGED <<codecVars, parseVars, mainVars>>

\* one turn of the for loop of discover_listing_and_links
ExtractStep ==
  /\ status = "running"
  /\ pc = "extract"
  /\ dpos <= Len(pages)
  /\ getLog' = Append(getLog, pages[dpos])
  /\ \E t \in Transports :
       /\ lastGet' = get(t)
       /\ IF get(t).raised
          THEN /\ Propagate
               /\ UNCHANGED <<dpos, all_links>>
          ELSE /\ all_links' =
                    all_links \o extract_dtc_links_playwright(PageAt(pages[dpos], get(t)))
               /\ dpos' = dpos + 1
               /\ UNCHANGED <<status, pc>>
  /\ UNCHANGED <<argVars, seen, q, pages, links, loopVars, fileVars>>
  /\ UNCHANGED <<codecVars, parseVars, mainVars>>

\* discover_listing_and_links returns sorted(set(all_links), key=str.lower);
\* scrape_oem starts its loop over the links
ExtractReturn ==
  /\ status = "running"
  /\ pc = "extract"
  /\ dpos > Len(pages)
  /\ links' \in SortedByLower(ElemsOf(all_links))
  /\ pc' = "fetch"
  /\ pos' = 1
  /\ UNCHANGED <<status, argVars, lastGet, seen, q, pages, dpos, all_links, getLog>>
  /\ UNCHANGED <<rec, wrote, records, fileVars>>
  /\ UNCHANGED <<codecVars, parseVars, mainVars>>

NextDiscover == BfsStep \/ BfsReturn \/ ExtractStep \/ ExtractReturn
SpecDiscover == InitDiscover /\ [][NextDiscover]_vars

(***************************************************************************)
(* scrape_oem                                                              *)
(***************************************************************************)
\* the detail pages a run links to, in the order the root page lists them
RunUrls == <<UrlDetailLower, UrlDetailUpper, UrlDetailOther>>

\* the anchor lists of a whole run: RunUrls with some anchors left out
RunAnchors ==
  {SelectSeq(RunUrls, LAMBDA u : u \in keep) : keep \in SUBSET ElemsOf(RunUrls)}

\* the sites of a whole run: the root page holds up to MaxRunAnchors anchors
RunSites ==
  {[k \in ListingKeys |-> IF k = normalize_url(list_url) THEN Page(a, {}) ELSE Page(<<>>, {})] :
     a \in {r \in RunAnchors : Len(r) <= MaxRunAnchors}}

\* the state when scrape_oem has opened its files
Init ==
  /\ CodecIdle
  /\ ParseIdle
  /\ MainIdle
  /\ status = "running"
  /\ pc = "warmup"
  /\ site \in RunSites
  /\ max_pages = 0
  /\ no_warmup \in BOOLEAN
  /\ flush_every \in 1..MaxFlushEvery
  /\ lastGet = NoGet
  /\ DiscoveryStart
  /\ FilesOpened

\* a warmup without the try/except: its exception leaves scrape_oem
WarmupFatal ==
  /\ status = "running"
  /\ pc = "warmup"
  /\ IF no_warmup
     THEN /\ pc' = "bfs"
          /\ UNCHANGED <<status, lastGet>>
     ELSE \E t1, t2 \in Transports :
            /\ lastGet' = IF get(t1).raised THEN get(t1) ELSE get(t2)
            /\ IF get(t1).raised \/ get(t2).raised
               THEN Propagate
               ELSE /\ pc' = "bfs"
                    /\ UNCHANGED status
  /\ UNCHANGED <<argVars, discVars, loopVars, fileVars>>
  /\ UNCHANGED <<codecVars, parseVars, mainVars>>

\* if not no_warmup: fetcher.warmup(oem_slug), two gets, inside try/except
Warmup ==
  /\ status = "running"
  /\ pc = "warmup"
  /\ IF no_warmup
     THEN UNCHANGED lastGet
     ELSE \E t1, t2 \in Transports :
            lastGet' = IF get(t1).raised THEN get(t1) ELSE get(t2)
  /\ pc' = "bfs"
  /\ UNCHANGED <<status, argVars, discVars, loopVars, fileVars>>
  /\ UNCHANGED <<codecVars, parseVars, mainVars>>

\* what the sections of a detail page come to: its tables and its paragraphs
Docs == {[tables |-> n, paras |-> 1] : n \in 0..MaxTables}
BlockDoc == [tables |-> 0, paras |-> 0]

\* the record parse_detail_page makes of a page without h1 and title: the
\* code is the URL's last segment; rows counts the record's long-CSV rows
RecOf(url, doc) ==
  [dtc |-> parse_detail_page(None, None, url).dtc, url |-> url,
   tables |-> doc.tables, rows |-> doc.paras + doc.tables]

\* a file operation may raise OSError
MayFail == ioFaults < MaxIoFaults
Fails ==
  /\ MayFail
  /\ ioFaults' = ioFaults + 1

\* wide_f.flush(); long_f.flush(); jsonl_f.flush()
FlushedAll == [jsonl |-> Len(jsonl), wide |-> Len(wide), long |-> Len(long)]

LoopPcs == {"fetch", "tables", "w_jsonl", "w_wide", "w_long", "w_flush", "except"}

\* the for loop takes the next link: fetcher.get and parse_detail_page
LoopFetch ==
  /\ status = "running"
  /\ pc = "fetch"
  /\ pos <= Len(links)
  /\ \E t \in Transports :
       /\ lastGet' = get(t)
       /\ IF get(t).raised
          THEN /\ pc' = "except"
               /\ UNCHANGED rec
          ELSE \/ \* parse_detail_page raises
                  /\ pc' = "except"
                  /\ UNCHANGED rec
               \/ \E doc \in IF Shown(get(t)) = "blocked" THEN {BlockDoc} ELSE Docs :
                    /\ rec' = RecOf(links[pos], doc)
                    /\ pc' = IF doc.tables > 0 THEN "tables" ELSE "w_jsonl"
  /\ UNCHANGED <<status, argVars, discVars, pos, wrote, records, fileVars>>
  /\ UNCHANGED <<codecVars, parseVars, mainVars>>

\* the table files written for the record in hand
TablesOfRec == {n \in 1..Len(tables) : tables[n].url = rec.url}
\* len([n for n in os.listdir(out_dir) ...]) + 1
NextTableIdx == Cardinality({n \in 1..Len(tables) : tables[n].dtc = rec.dtc}) + 1

\* one table of the record is written to tables/<OEM>/<DTC>/table_<idx>.csv
SaveTable ==
  /\ status = "running"
  /\ pc = "tables"
  /\ \/ /\ Fails
        /\ pc' = "except"
        /\ UNCHANGED tables
     \/ /\ tables' = Append(tables, [dtc |-> rec.dtc, idx |-> NextTableIdx, url |-> rec.url])
        /\ pc' = IF Cardinality(TablesOfRec) + 1 >= rec.tables THEN "w_jsonl" ELSE "tables"
        /\ UNCHANGED ioFaults
  /\ UNCHANGED <<status, argVars, lastGet, discVars, loopVars>>
  /\ UNCHANGED <<jsonl, wide, long, flushed, closed, aggregate>>
  /\ UNCHANGED <<codecVars, parseVars, mainVars>>

\* write_record: jsonl_f.write(...); wrote += 1
WriteJsonl ==
  /\ status = "running"
  /\ pc = "w_jsonl"
  /\ \/ /\ Fails
        /\ pc' = "except"
        /\ UNCHANGED <<jsonl, wrote>>
     \/ /\ jsonl' = Append(jsonl, [kind |-> "detail", url |-> rec.url])
        /\ wrote' = wrote + 1
        /\ pc' = "w_wide"
        /\ UNCHANGED ioFaults
  /\ UNCHANGED <<status, argVars, lastGet, discVars, pos, rec, records>>
  /\ UNCHANGED <<wide, long, tables, flushed, closed, aggregate>>
  /\ UNCHANGED <<codecVars, parseVars, mainVars>>

\* write_record: wide_w.writerow(...)
WriteWide ==
  /\ status = "running"
  /\ pc = "w_wide"
  /\ \/ /\ Fails
        /\ pc' = "except"
        /\ UNCHANGED wide
     \/ /\ wide' = Append(wide, rec.url)
        /\ pc' = "w_long"
        /\ UNCHANGED ioFaults
  /\ UNCHANGED <<status, argVars, lastGet, discVars, loopVars>>
  /\ UNCHANGED <<jsonl, long, tables, flushed, closed, aggregate>>
  /\ UNCHANGED <<codecVars, parseVars, mainVars>>

\* write_record: long_w.writerow(...) for every chunk of every section
WriteLong ==
  /\ status = "running"
  /\ pc = "w_long"
  /\ \/ /\ rec.rows > 0
        /\ Fails
        /\ pc' = "except"
        /\ UNCHANGED long
     \/ /\ long' = long \o [n \in 1..rec.rows |-> rec.url]
        /\ pc' = "w_flush"
        /\ UNCHANGED ioFaults
  /\ UNCHANGED <<status, argVars, lastGet, discVars, loopVars>>
  /\ UNCHANGED <<jsonl, wide, tables, flushed, closed, aggregate>>
  /\ UNCHANGED <<codecVars, parseVars, mainVars>>

\* write_record: the flush when wrote % flush_every == 0; then
\* records.append(rec), gentle_sleep, and the loop goes on
FlushAppend ==
  /\ status = "running"
  /\ pc = "w_flush"
  /\ \/ /\ wrote % flush_every = 0
        /\ Fails
        /\ pc' = "except"
        /\ UNCHANGED <<flushed, records, pos>>
     \/ /\ flushed' = IF wrote % flush_every = 0 THEN FlushedAll ELSE flushed
        /\ records' = Append(records, rec)
        /\ pos' = pos + 1
        /\ pc' = "fetch"
        /\ UNCHANGED ioFaults
  /\ UNCHANGED <<status, argVars, lastGet, discVars, rec, wrote>>
  /\ UNCHANGED <<jsonl, wide, long, tables, closed, aggregate>>
  /\ UNCHANGED <<codecVars, parseVars, mainVars>>

\* the finally block: flush and close the three files
Finally ==
  /\ flushed' = FlushedAll
  /\ closed' = TRUE

\* an except block that drops the failure without a line
ExceptSilent ==
  /\ status = "running"
  /\ pc = "except"
  /\ pos' = pos + 1
  /\ pc' = "fetch"
  /\ UNCHANGED <<status, argVars, lastGet, discVars, rec, wrote, records, fileVars>>
  /\ UNCHANGED <<codecVars, parseVars, mainVars>>

\* an except block that leaves the for loop on the same link
ExceptRetry ==
  /\ status = "running"
  /\ pc = "except"
  /\ jsonl' = Append(jsonl, [kind |-> "error", url |-> links[pos]])
  /\ pc' = "fetch"
  /\ UNCHANGED <<status, argVars, lastGet, discVars, loopVars>>
  /\ UNCHANGED <<wide, long, tables, flushed, closed, aggregate, ioFaults>>
  /\ UNCHANGED <<codecVars, parseVars, mainVars>>

\* except Exception: the error line is written to the JSONL file; then
\* gentle_sleep, and the loop goes on.  An exception raised by that write
\* leaves the loop through the finally block.
ExceptStep ==
  /\ status = "running"
  /\ pc = "except"
  /\ \/ /\ Fails
        /\ Finally
        /\ status' = "crashed"
        /\ UNCHANGED <<pc, jsonl, pos>>
     \/ /\ jsonl' = Append(jsonl, [kind |-> "error", url |-> links[pos]])
        /\ pos' = pos + 1
        /\ pc' = "fetch"
        /\ UNCHANGED <<status, flushed, closed, ioFaults>>
  /\ UNCHANGED <<argVars, lastGet, discVars, rec, wrote, records>>
  /\ UNCHANGED <<wide, long, tables, aggregate>>
  /\ UNCHANGED <<codecVars, parseVars, mainVars>>

\* the loop is over: the finally block, then the aggregate JSON is written
LoopEnd ==
  /\ status = "running"
  /\ pc = "fetch"
  /\ pos > Len(links)
  /\ Finally
  /\ \/ /\ Fails
        /\ status' = "crashed"
        /\ UNCHANGED aggregate
     \/ /\ aggregate' = [written |-> TRUE, content |-> records]
        /\ status' = "done"
        /\ UNCHANGED ioFaults
  /\ UNCHANGED <<pc, argVars, lastGet, discVars, loopVars, jsonl, wide, long, tables>>
  /\ UNCHANGED <<codecVars, parseVars, mainVars>>

\* KeyboardInterrupt: inside the try block it runs the finally block on its
\* way out; before the try block nothing closes the files
Interrupt ==
  /\ status = "running"
  /\ status' = "interrupted"
  /\ IF pc \in LoopPcs THEN Finally ELSE UNCHANGED <<flushed, closed>>
  /\ UNCHANGED <<pc, argVars, lastGet, discVars, loopVars>>
  /\ UNCHANGED <<jsonl, wide, long, tables, aggregate, ioFaults>>
  /\ UNCHANGED <<codecVars, parseVars, mainVars>>

Next ==
  \/ Warmup
  \/ BfsStep
  \/ BfsReturn
  \/ ExtractStep
  \/ ExtractReturn
  \/ LoopFetch
  \/ SaveTable
  \/ WriteJsonl
  \/ WriteWide
  \/ WriteLong
  \/ FlushAppend
  \/ ExceptStep
  \/ LoopEnd
  \/ Interrupt

Spec == Init /\ [][Next]_vars

(***************************************************************************)
(* The codec under test: codes of the grammar, and texts one edit away     *)
(***************************************************************************)
HexSample == <<"0", "1", "F", "a", "9">>
EditSample == <<"G", "0", "-", "f", "z">>
SampleChars == {HexSample[i] : i \in 1..NumHexChars}
EditChars == {EditSample[i] : i \in 1..NumEditChars}
Letters == {"P", "C", "B", "U"}

\* codes of the grammar: a letter, four body digits (the third one fixed)
\* and two suffix digits
SeedCodes ==
  {<<l, b[1], b[2], "A", b[3], "-", f[1], f[2]>> :
     l \in Letters, b \in [1..3 -> SampleChars], f \in [1..2 -> SampleChars]}

DeleteAt(s, p) == SubSeq(s, 1, p - 1) \o Drop(s, p + 1)
ReplaceAt(s, p, c) == [s EXCEPT ![p] = c]
RepeatAt(s, p) == SubSeq(s, 1, p) \o Drop(s, p)

NoRecord == [dtc |-> <<>>, url |-> <<>>, base_code |-> Absent, fmi_hex |-> Absent,
             fmi_meaning |-> Absent, hex_triplet |-> Absent]

InitCodec ==
  /\ RunIdle
  /\ ParseIdle
  /\ MainIdle
  /\ code \in SeedCodes
  /\ stage = "seed"
  /\ hexOut = NoResult
  /\ record = NoRecord

\* one edit of the code: a character dropped, replaced or doubled
Corrupt ==
  /\ stage = "seed"
  /\ \E p \in 1..Len(code) :
       \/ code' = DeleteAt(code, p)
       \/ code' = RepeatAt(code, p)
       \/ \E c \in EditChars \cup {CharLower(code[p])} : code' = ReplaceAt(code, p, c)
  /\ stage' = "edited"
  /\ UNCHANGED <<hexOut, record>>
  /\ UNCHANGED <<runVars, parseVars, mainVars>>

\* a call of dtc_to_hex_triplet(code)
Encode ==
  /\ stage \in {"seed", "edited"}
  /\ hexOut' = dtc_to_hex_triplet(code)
  /\ stage' = "encoded"
  /\ UNCHANGED <<code, record>>
  /\ UNCHANGED <<runVars, parseVars, mainVars>>

DetailUrlOf(seg) == <<"/", "L", "R", "/">> \o seg

\* the h1 and title texts a detail page of the code may carry
HeadingsOf(c) == {None, c \o <<" ", "~", " ", "D">>, c \o <<" ", "D">>, <<"D", " ">> \o c}
TitlesOf(c) == {None, <<"D", " ">> \o c \o <<"|">>}

\* a call of parse_detail_page on a page of the code, fetched from the
\* code's detail URL
ParseDetail ==
  /\ stage \in {"seed", "edited"}
  /\ \E h1 \in HeadingsOf(code), title \in TitlesOf(code) :
       record' = parse_detail_page(h1, title, DetailUrlOf(code))
  /\ stage' = "parsed"
  /\ UNCHANGED <<code, hexOut>>
  /\ UNCHANGED <<runVars, parseVars, mainVars>>

NextCodec == Corrupt \/ Encode \/ ParseDetail
SpecCodec == InitCodec /\ [][NextCodec]_vars

(***************************************************************************)
(* Properties of a run of scrape_oem                                       *)
(***************************************************************************)
LinesOf(url) == {m \in 1..Len(jsonl) : jsonl[m].url = url}
Unflushed == Len(jsonl) - flushed.jsonl

\* C1: when a run completes, every link that discovery returned has a line,
\* a detail record or an error record, in the JSONL stream, whichever of the
\* link's steps failed; when no file operation failed it has exactly one,
\* an error record exactly when the link's record is not in the aggregate.
C1_EveryLinkAccounted ==
  status = "done" =>
     /\ \A n \in 1..Len(links) : LinesOf(links[n]) # {}
     /\ ioFaults = 0 =>
          /\ Len(jsonl) = Len(links)
          /\ \A n \in 1..Len(links) : jsonl[n].url = links[n]
          /\ Cardinality({m \in 1..Len(jsonl) : jsonl[m].kind = "detail"}) = Len(records)

\* C1's case: a completed run over two links or more, one of which failed
C1_Witness ==
  /\ status = "done"
  /\ Len(links) >= 2
  /\ \E m \in 1..Len(jsonl) : jsonl[m].kind = "error"
  /\ \E m \in 1..Len(jsonl) : jsonl[m].kind = "detail"

\* C2 as claimed: the stream never holds two lines for the same URL.
C2_OneLinePerUrl ==
  \A m, n \in 1..Len(jsonl) : jsonl[m].url = jsonl[n].url => m = n

\* C3 as claimed: every line pushed is flushed before the next fetch begins,
\* so at most one line, that of the record in hand, is ever unflushed.
C3_FlushedBeforeNextFetch ==
  status = "running" =>
     /\ pc = "fetch" => Unflushed = 0
     /\ Unflushed <= 1

\* C4 as claimed: after an interruption inside the fetch loop the outputs
\* hold nothing of the record in hand, and every detail record of the
\* stream is in the summary CSV as well.
C4_InterruptLeavesPrefix ==
  (status = "interrupted" /\ pc \in LoopPcs) =>
     /\ pc # "fetch" =>
          /\ LinesOf(links[pos]) = {}
          /\ links[pos] \notin ElemsOf(wide)
          /\ links[pos] \notin ElemsOf(long)
          /\ \A n \in 1..Len(tables) : tables[n].url # links[pos]
     /\ \A m \in 1..Len(jsonl) :
          jsonl[m].kind = "detail" => jsonl[m].url \in ElemsOf(wide)

QueryParams(u) ==
  LET pairs == PairsOf(StrSplit(QueryOf(u), "&"))
  IN {<<pairs[n][1], FirstValue(pairs, pairs[n][1])>> : n \in 1..Len(pairs)}
\* what identifies a page, whatever the order of the query: the path without
\* trailing slashes and the parameters of the query
PageKey(u) == <<RStripSlash(PathOf(u)), QueryParams(u)>>
SamePage(u, v) == PageKey(u) = PageKey(v)

\* the pages of the fetches logged, in order
FetchKeys == [n \in 1..Len(getLog) |-> PageKey(getLog[n])]
\* how many of the fetches with pages keys were of page k
CountOf(keys, k) == Cardinality({n \in 1..Len(keys) : keys[n] = k})
\* how many of the fetches logged were of u's page
FetchesOf(u) == CountOf(FetchKeys, PageKey(u))

\* C6 as claimed: during discovery no normalized URL is fetched more than once.
C6_NeverFetchedTwice ==
  \A n \in 1..Len(getLog) : FetchesOf(getLog[n]) <= 1

\* C6, amended: discover_listing_pages fetches no normalized URL more than
\* once, and discover_listing_and_links fetches every page that
\* discover_listing_pages recorded exactly once more, to extract its links:
\* no normalized URL is fetched more than twice during discovery.
C6_OncePerFunction ==
  LET keys == FetchKeys
      seenKeys == {keys[n] : n \in 1..Len(keys)}
  IN /\ pc = "bfs" => \A k \in seenKeys : CountOf(keys, k) = 1
     /\ \A k \in seenKeys : CountOf(keys, k) <= 2
     /\ (pc = "fetch" /\ status = "running") =>
          \A n \in 1..Len(pages) : CountOf(keys, PageKey(pages[n])) = 2

\* C6's case: both orders of the query were enqueued, discovery is over
C6_Witness ==
  /\ pc = "fetch"
  /\ max_pages = 0
  /\ UrlPageAB \in ElemsOf(site[normalize_url(list_url)].anchors)
  /\ UrlPageBA \in ElemsOf(site[normalize_url(list_url)].anchors)
  /\ FetchesOf(UrlPageAB) = 2
  /\ FetchesOf(UrlPageBA) = 2

\* C7 as claimed: the links returned by discover_listing_and_links are
\* case-insensitively unique.
C7_LinksUniqueIgnoringCase ==
  (pc = "fetch" /\ status = "running") =>
     \A m, n \in 1..Len(links) : StrLower(links[m]) = StrLower(links[n]) => m = n

(***************************************************************************)
(* Properties of the codec                                                 *)
(***************************************************************************)
\* a | b for naturals
RECURSIVE BitOr(_, _)
BitOr(a, b) ==
  IF a = 0 THEN b
  ELSE IF b = 0 THEN a
  ELSE 2 * BitOr(a \div 2, b \div 2) + (IF a % 2 = 1 \/ b % 2 = 1 THEN 1 ELSE 0)

\* the parts of a code of the grammar, read off its eight characters
NibbleOf(c) == nibble_map[CharUpper(c[1])]
BodyOf(c) == 4096 * HexVal(c[2]) + 256 * HexVal(c[3]) + 16 * HexVal(c[4]) + HexVal(c[5])
SuffixOf(c) == 16 * HexVal(c[7]) + HexVal(c[8])

\* three bytes written as two hexadecimal digits each, blank-separated
TwoHex(b) == <<HexUpper[(b \div 16) + 1], HexUpper[(b % 16) + 1]>>
BytesText(b1, b2, b3) == TwoHex(b1) \o <<" ">> \o TwoHex(b2) \o <<" ">> \o TwoHex(b3)
Bits15to8(v) == (v \div 256) % 256
Bits7to0(v) == v % 256

\* C8 as claimed: for every code of the grammar the triplet's first two bytes
\* are bits 15-8 and 7-0 of (nibble << 12) | body, the third is the suffix.
C8_TripletOfOr ==
  (stage = "encoded" /\ DTC_SEGMENT_RE(code)) =>
     LET v == BitOr(NibbleOf(code) * 4096, BodyOf(code))
     IN /\ hexOut.ok
        /\ hexOut.text = BytesText(Bits15to8(v), Bits7to0(v), SuffixOf(code))

\* C8, amended: for every code of the grammar the triplet's first two bytes
\* are bits 15-8 and 7-0 of the sum (nibble << 12) + body (bits above bit 15
\* are dropped), the third is the suffix; for a body below 0x1000 that is
\* also (nibble << 12) | body.
C8_TripletOfSum ==
  (stage = "encoded" /\ DTC_SEGMENT_RE(code)) =>
     LET v == NibbleOf(code) * 4096 + BodyOf(code)
         w == BitOr(NibbleOf(code) * 4096, BodyOf(code))
     IN /\ hexOut.ok
        /\ hexOut.text = BytesText(Bits15to8(v), Bits7to0(v), SuffixOf(code))
        /\ BodyOf(code) < 4096 =>
             hexOut.text = BytesText(Bits15to8(w), Bits7to0(w), SuffixOf(code))

\* C8's case: a code with a body of 0x1000 or more whose sum passes 16 bits
C8_Witness ==
  /\ stage = "encoded"
  /\ DTC_SEGMENT_RE(code)
  /\ hexOut.ok
  /\ NibbleOf(code) * 4096 + BodyOf(code) >= 65536

\* C9 as claimed: dtc_to_hex_triplet fails on every text that does not match
\* the grammar and never returns a triplet for one.
C9_RejectsNonGrammar ==
  (stage = "encoded" /\ ~DTC_SEGMENT_RE(code)) => ~hexOut.ok

\* C10: parse_detail_page returns a record for every page; when the record's
\* code fails the grammar, hex_triplet, base_code, fmi_hex and fmi_meaning
\* are absent; when it matches, all four are present; so hex_triplet is
\* present only with a code that matches the grammar.
C10_TripletOnlyForGrammar ==
  stage = "parsed" =>
     /\ record.url = DetailUrlOf(code)
     /\ ~DTC_SEGMENT_RE(record.dtc) =>
          /\ record.hex_triplet = Absent
          /\ record.base_code = Absent
          /\ record.fmi_hex = Absent
          /\ record.fmi_meaning = Absent
     /\ DTC_SEGMENT_RE(record.dtc) =>
          /\ record.hex_triplet # Absent
          /\ record.base_code = SubSeq(record.dtc, 1, 5)
          /\ record.fmi_hex = SubSeq(record.dtc, 7, 8)

\* C10's case: a record whose code, taken from the URL, fails the grammar
\* although dtc_to_hex_triplet would return a triplet for it
C10_Witness ==
  /\ stage = "parsed"
  /\ ~DTC_SEGMENT_RE(record.dtc)
  /\ record.dtc = StrUpper(code)
  /\ dtc_to_hex_triplet(record.dtc).ok
  /\ record.hex_triplet = Absent

(***************************************************************************)
(* html_table_to_data and extract_sections                                 *)
(***************************************************************************)
\* " ".join(text.split()): the words of the text, one blank between them
RECURSIVE WordsOf(_)
WordsOf(t) ==
  IF t = <<>> THEN <<>>
  ELSE IF IsSpace(Head(t)) THEN WordsOf(Tail(t))
  ELSE LET n == IndexFrom(t, " ", 1)
       IN IF n = 0 THEN <<t>>
          ELSE <<SubSeq(t, 1, n - 1)>> \o WordsOf(Drop(t, n + 1))
RECURSIVE JoinWords(_)
JoinWords(ws) ==
  IF ws = <<>> THEN <<>>
  ELSE IF Len(ws) = 1 THEN ws[1]
  ELSE ws[1] \o <<" ">> \o JoinWords(Tail(ws))
NormText(t) == JoinWords(WordsOf(t))

\* str(n) for a natural number
RECURSIVE DecText(_)
DecText(n) == IF n < 10 THEN <<HexUpper[n + 1]>> ELSE DecText(n \div 10) \o <<HexUpper[(n % 10) + 1]>>

\* a table row (tr) is the sequence of its cells; a cell is [tag, text]
CellsOf(tr) == [j \in 1..Len(tr) |-> NormText(tr[j].text)]
\* table_tag.select("thead th"): the th cells of the rows of thead
RECURSIVE TheadTh(_)
TheadTh(trs) ==
  IF trs = <<>> THEN <<>>
  ELSE CellsOf(SelectSeq(Head(trs), LAMBDA c : c.tag = "th")) \o TheadTh(Tail(trs))
\* table_tag.select("tr"): every row of the table, those of thead first
AllTr(t) == t.thead \o t.tbody
\* f"col_{i}" for i in range(h, n)
ColNames(h, n) == [j \in 1..(n - h) |-> <<"c", "o", "l", "_">> \o DecText(h + j - 1)]
Blanks(n) == [j \in 1..n |-> <<>>]

\* the loop over rows of html_table_to_data: a short row is padded to the
\* header as it is then, a longer row extends the header
RECURSIVE NormLoop(_, _, _)
NormLoop(rows, headers, norm_rows) ==
  IF rows = <<>> THEN [headers |-> headers, rows |-> norm_rows]
  ELSE LET r == Head(rows)
           h == Len(headers)
       IN IF Len(r) < h
          THEN NormLoop(Tail(rows), headers, Append(norm_rows, r \o Blanks(h - Len(r))))
          ELSE IF Len(r) > h
          THEN NormLoop(Tail(rows), headers \o ColNames(h, Len(r)), Append(norm_rows, r))
          ELSE NormLoop(Tail(rows), headers, Append(norm_rows, r))

\* the rows html_table_to_data collects: the cells of every tr that has any
CollectedRows(t) ==
  LET trs == SelectSeq(AllTr(t), LAMBDA tr : tr # <<>>)
  IN [k \in 1..Len(trs) |-> CellsOf(trs[k])]

html_table_to_data(t) ==
  LET headers == TheadTh(t.thead)
      rows == CollectedRows(t)
  IN IF headers = <<>> /\ rows # <<>>
     THEN NormLoop(Tail(rows), rows[1], <<>>)
     ELSE NormLoop(rows, headers, <<>>)

\* the elements of a page: [name, text, items, table]
Elem(name, text, items) ==
  [name |-> name, text |-> text, items |-> items, table |-> [thead |-> <<>>, tbody |-> <<>>]]
IsHeading(e) == e.name \in {"h1", "h2", "h3"}

\* the texts that are left of a list's items: [t for li in items if t]
ItemTexts(items) ==
  SelectSeq([k \in 1..Len(items) |-> NormText(items[k])], LAMBDA t : t # <<>>)

\* the chunk collect_after makes of one sibling, <<>> when it makes none
ChunkOf(e) ==
  IF e.name \in {"p", "div"}
  THEN IF NormText(e.text) # <<>>
       THEN <<[kind |-> "paragraph", text |-> NormText(e.text)]>> ELSE <<>>
  ELSE IF e.name \in {"ul", "ol"}
  THEN IF ItemTexts(e.items) # <<>>
       THEN <<[kind |-> "list", items |-> ItemTexts(e.items)]>> ELSE <<>>
  ELSE IF e.name = "table"
  THEN <<[kind |-> "table", table |-> html_table_to_data(e.table)]>>
  ELSE <<>>

\* collect_after(heading): the chunks of the siblings that follow position
\* i, up to the next h1, h2 or h3
RECURSIVE collect_after(_, _)
collect_after(elems, i) ==
  IF i + 1 > Len(elems) \/ IsHeading(elems[i + 1]) THEN <<>>
  ELSE ChunkOf(elems[i + 1]) \o collect_after(elems, i + 1)

\* soup.select("h2, h3"): the positions of the headings, in document order
HeadingsAt(elems) ==
  SelectSeq([k \in 1..Len(elems) |-> k], LAMBDA k : elems[k].name \in {"h2", "h3"})

\* the for loop of extract_sections over enumerate(headings), from idx on
RECURSIVE SectionsFrom(_, _, _)
SectionsFrom(elems, headings, idx) ==
  IF idx >= Len(headings) THEN <<>>
  ELSE LET content == collect_after(elems, headings[idx + 1])
           rest == SectionsFrom(elems, headings, idx + 1)
       IN IF content # <<>>
          THEN <<[title |-> NormText(elems[headings[idx + 1]].text),
                  order_index |-> idx, content |-> content]>> \o rest
          ELSE rest

extract_sections(elems) == SectionsFrom(elems, HeadingsAt(elems), 0)

\* the pages under test
PageElems ==
  { Elem("h1", <<"T">>, <<>>), Elem("h2", <<"A", " ", " ", "b">>, <<>>),
    Elem("h3", <<"C">>, <<>>), Elem("p", <<"x">>, <<>>), Elem("p", <<" ">>, <<>>),
    Elem("ul", <<>>, << <<"i">>, <<" ">> >>), Elem("table", <<>>, <<>>),
    Elem("span", <<"s">>, <<>>) }
PagesUnderTest == SeqsUpTo(PageElems, MaxElems)

\* the tables under test: thead is absent (head = 0) or holds one row of
\* head - 1 th cells; body row k holds widths[k] td cells
HeadRow(n) == [j \in 1..n |-> [tag |-> "th", text |-> <<" ", "H">> \o DecText(j)]]
BodyRow(k, n) == [j \in 1..n |-> [tag |-> "td", text |-> <<"r">> \o DecText(k) \o DecText(j)]]
TableOf(head, widths) ==
  [thead |-> IF head = 0 THEN <<>> ELSE <<HeadRow(head - 1)>>,
   tbody |-> [k \in 1..Len(widths) |-> BodyRow(k, widths[k])]]
TablesUnderTest ==
  {TableOf(head, widths) : head \in 0..(MaxWidth + 1), widths \in SeqsUpTo(0..MaxWidth, MaxRows)}

InitParse ==
  /\ CodecIdle
  /\ RunIdle
  /\ MainIdle
  /\ sections = <<>>
  /\ table_data = <<>>
  /\ \/ /\ pstage = "page"
        /\ soup \in PagesUnderTest
        /\ table_tag = <<>>
     \/ /\ pstage = "table"
        /\ table_tag \in TablesUnderTest
        /\ soup = <<>>

\* a call of extract_sections(soup)
ExtractSections ==
  /\ pstage = "page"
  /\ sections' = extract_sections(soup)
  /\ pstage' = "sections"
  /\ UNCHANGED <<soup, table_tag, table_data>>
  /\ UNCHANGED <<codecVars, runVars, mainVars>>

\* a call of html_table_to_data(table_tag)
TableToData ==
  /\ pstage = "table"
  /\ table_data' = html_table_to_data(table_tag)
  /\ pstage' = "data"
  /\ UNCHANGED <<soup, table_tag, sections>>
  /\ UNCHANGED <<codecVars, runVars, mainVars>>

NextParse == ExtractSections \/ TableToData
SpecParse == InitParse /\ [][NextParse]_vars

(***************************************************************************)
(* Properties of html_table_to_data and extract_sections                   *)
(***************************************************************************)
\* C11 as claimed: in the result of html_table_to_data every row has exactly
\* as many cells as the final header, for every sequence of row widths.
C11_RowsMatchHeader ==
  pstage = "data" =>
     \A k \in 1..Len(table_data.rows) : Len(table_data.rows[k]) = Len(table_data.headers)

\* C12 as claimed: the order_index values of the sections returned start at
\* 0 and are strictly increasing in document order.
C12_IndexFromZeroIncreasing ==
  pstage = "sections" =>
     /\ sections # <<>> => sections[1].order_index = 0
     /\ \A k \in 1..(Len(sections) - 1) :
          sections[k].order_index < sections[k + 1].order_index

\* the body rows of the table that have cells
BodyRowsWithCells(t) == SelectSeq(t.tbody, LAMBDA tr : tr # <<>>)

\* C18 as claimed: with header-row cells, they are the headers and only the
\* body rows are data rows; with none, the first row is the header and is
\* removed from the data rows; the header row is never also a data row.
C18_HeaderNotAData ==
  pstage = "data" =>
     IF TheadTh(table_tag.thead) # <<>>
     THEN /\ table_data.headers[1] = NormText(table_tag.thead[1][1].text)
          /\ Len(table_data.rows) = Len(BodyRowsWithCells(table_tag))
     ELSE Len(table_data.rows) = Len(BodyRowsWithCells(table_tag)) - 1
          \/ BodyRowsWithCells(table_tag) = <<>>

(***************************************************************************)
(* Properties of the run's phases                                          *)
(***************************************************************************)
\* C13 as claimed: a failed fetch of a single URL, a listing page during
\* discovery included, never ends the run of scrape_oem.
C13_UrlFailureNeverAborts ==
  (lastGet.raised /\ ioFaults = 0) => status # "crashed"

\* the phases of a run: WarmingUp, Discovering, Fetching, Done
Phase ==
  IF status = "done" THEN 3
  ELSE IF pc = "warmup" THEN 0
  ELSE IF pc \in {"bfs", "extract"} THEN 1
  ELSE 2

\* C14: whatever warmup did (succeeded, failed, was skipped), the step that
\* leaves WarmingUp enters Discovering with the run still going; nothing but
\* an interrupt ends a run in WarmingUp; and a step keeps the phase or moves
\* to the next one of WarmingUp, Discovering, Fetching, Done.
C14_WarmupNeverEnds ==
  [][ /\ (pc = "warmup" /\ pc' # "warmup") => (pc' = "bfs" /\ status' = "running")
      /\ (pc = "warmup" /\ status' # "running") => status' = "interrupted"
      /\ Phase' \in {Phase, Phase + 1} ]_vars

\* C14's case: warmup failed and the run is in Discovering
C14_Witness ==
  /\ ~no_warmup
  /\ pc = "bfs"
  /\ status = "running"
  /\ getLog = <<>>
  /\ lastGet.raised

(***************************************************************************)
(* The for loop of scrape_oem, from the return of discovery on             *)
(***************************************************************************)
\* the lists discover_listing_and_links may return
LinkLists ==
  UNION {SortedByLower(S) : S \in {T \in SUBSET ElemsOf(RunUrls) : Cardinality(T) <= MaxRunAnchors}}

\* discovery has returned: its locals are gone, the for loop is at its start
InitLoop ==
  /\ CodecIdle
  /\ ParseIdle
  /\ MainIdle
  /\ status = "running"
  /\ pc = "fetch"
  /\ site = <<>>
  /\ max_pages = 0
  /\ no_warmup \in BOOLEAN
  /\ flush_every \in 1..MaxFlushEvery
  /\ lastGet = get([n \in 1..MaxGotos |-> "ok"])
  /\ seen = {}
  /\ q = <<>>
  /\ pages = <<>>
  /\ dpos = 0
  /\ all_links = <<>>
  /\ getLog = <<>>
  /\ links \in LinkLists
  /\ pos = 1
  /\ rec = NoRec
  /\ wrote = 0
  /\ records = <<>>
  /\ jsonl = <<>>
  /\ wide = <<>>
  /\ long = <<>>
  /\ tables = <<>>
  /\ flushed = [jsonl |-> 0, wide |-> 0, long |-> 0]
  /\ closed = FALSE
  /\ aggregate = NoAggregate
  /\ ioFaults = 0

\* the steps of the program in the loop
LoopProgram ==
  \/ LoopFetch
  \/ SaveTable
  \/ WriteJsonl
  \/ WriteWide
  \/ WriteLong
  \/ FlushAppend
  \/ ExceptStep
  \/ LoopEnd

NextLoop == LoopProgram \/ Interrupt

\* the program is sequential: while it has a next step, it takes it
SpecLoop == InitLoop /\ [][NextLoop]_vars /\ WF_vars(LoopProgram)

\* C15: from the return of discovery on, the run reaches Done unless it is
\* interrupted or a file operation fails, whatever the fetches and parses
\* of the links do; the loop takes the links one after the other, never
\* goes back to a link and never starts over; in Done every link has been
\* processed, and with no file failure the stream holds one line per link.
C15_EachLinkOnceThenDone ==
  /\ <>(status = "done" \/ status = "interrupted" \/ ioFaults > 0)
  /\ [](status = "done" =>
          /\ pos = Len(links) + 1
          /\ ioFaults = 0 => [n \in 1..Len(jsonl) |-> jsonl[n].url] = links)
  /\ [][ /\ links' = links
         /\ pos' \in {pos, pos + 1}
         /\ (pc # "fetch" /\ pc' = "fetch") => pos' = pos + 1 ]_vars

\* C15's case: a run with a failed and a successful link has reached Done
C15_Witness ==
  /\ status = "done"
  /\ Len(links) >= 2
  /\ \E n \in 1..Len(jsonl) : jsonl[n].kind = "error"
  /\ \E n \in 1..Len(jsonl) : jsonl[n].kind = "detail"

(***************************************************************************)
(* main: one PlaywrightFetcher, scrape_oem for every namespace             *)
(***************************************************************************)
\* the namespaces of --oems
OemSlugs == {<<"L", "R">>, <<"J", "G">>}
\* the URLs a call of scrape_oem loads for a namespace: the site's root and
\* the namespace's listing (warmup, discovery), a detail page (the loop)
UrlsOf(oem) == {<<"/">>, <<"/">> \o oem, <<"/">> \o oem \o <<"/">> \o <<"P","0","5","F","F","-","0","0">>}

\* PlaywrightFetcher(...): a browser, a context with the cookies of
\* --cookie, and a blank page; loads counts the page loads of the object
NewFetcher(cookie_header) ==
  [id |-> 1, page |-> <<>>, cookies |-> cookie_header, loads |-> 0, open |-> TRUE]

\* main has made its one fetcher and enters the loop over the namespaces
InitMain ==
  /\ CodecIdle
  /\ RunIdle
  /\ ParseIdle
  /\ oems \in UNION {[1..n -> OemSlugs] : n \in 1..MaxOems}
  /\ oem_pos = 1
  /\ fetcher \in {NewFetcher(c) : c \in {{}, {"cf_clearance"}}}
  /\ sessions = <<>>
  /\ mstage = "loop"

\* for oem in args.oems: scrape_oem(oem_slug, fetcher, ...) is called with
\* main's fetcher; sessions records the state of the object handed over
ScrapeBegin ==
  /\ mstage = "loop"
  /\ oem_pos <= Len(oems)
  /\ sessions' = Append(sessions, [oem |-> oems[oem_pos], fetcher |-> fetcher])
  /\ mstage' = "scraping"
  /\ UNCHANGED <<oems, oem_pos, fetcher>>
  /\ UNCHANGED <<codecVars, runVars, parseVars>>

\* fetcher.close(): context, browser and driver are shut down
Closed(f) == [f EXCEPT !.open = FALSE]

\* a fetcher.get(url) of the running scrape_oem: page.goto loads the URL in
\* the fetcher's one page, the consent click leaves its cookie in the one
\* context.  An exception of page.goto is caught in warmup and in the loop
\* over the links; during discovery it leaves scrape_oem and main, whose
\* finally block closes the fetcher.
ScrapeGet ==
  /\ mstage = "scraping"
  /\ fetcher.loads - sessions[Len(sessions)].fetcher.loads < MaxRunGets
  /\ \E url \in UrlsOf(oems[oem_pos]), t \in Transports, caught \in BOOLEAN :
       IF get(t).raised
       THEN /\ fetcher' = IF caught THEN [fetcher EXCEPT !.loads = @ + 1]
                          ELSE Closed([fetcher EXCEPT !.loads = @ + 1])
            /\ mstage' = IF caught THEN "scraping" ELSE "closed"
       ELSE /\ fetcher' = [fetcher EXCEPT !.page = url, !.loads = @ + 1,
                                          !.cookies = @ \cup {"consent"}]
            /\ UNCHANGED mstage
  /\ UNCHANGED <<oems, oem_pos, sessions>>
  /\ UNCHANGED <<codecVars, runVars, parseVars>>

\* scrape_oem returns, after the page loads of discovery at least; the
\* loop takes the next namespace
ScrapeEnd ==
  /\ mstage = "scraping"
  /\ fetcher.loads > sessions[Len(sessions)].fetcher.loads
  /\ oem_pos' = oem_pos + 1
  /\ mstage' = "loop"
  /\ UNCHANGED <<oems, fetcher, sessions>>
  /\ UNCHANGED <<codecVars, runVars, parseVars>>

\* the loop is over: finally: fetcher.close()
MainClose ==
  /\ mstage = "loop"
  /\ oem_pos > Len(oems)
  /\ fetcher' = Closed(fetcher)
  /\ mstage' = "closed"
  /\ UNCHANGED <<oems, oem_pos, sessions>>
  /\ UNCHANGED <<codecVars, runVars, parseVars>>

NextMain == ScrapeBegin \/ ScrapeGet \/ ScrapeEnd \/ MainClose
SpecMain == InitMain /\ [][NextMain]_vars

\* C16 as claimed: each namespace's run owns its own Fetcher session: the
\* fetcher a run starts with is one no other run has used, with no page
\* loaded and no cookie left by another namespace's run.
C16_OwnFetcherSession ==
  \A n \in 1..Len(sessions) :
     /\ sessions[n].fetcher.loads = 0
     /\ sessions[n].fetcher.page = <<>>
     /\ "consent" \notin sessions[n].fetcher.cookies
     /\ \A m \in 1..Len(sessions) : m # n => sessions[m].fetcher.id # sessions[n].fetcher.id

(***************************************************************************)
(* More properties of discovery                                            *)
(***************************************************************************)
\* s is in order by the lower-cased texts
OrderedIgnoringCase(s) ==
  \A n \in 1..(Len(s) - 1) : ~StrLess(StrLower(s[n + 1]), StrLower(s[n]))

\* C17 as claimed: the links are processed in the order discovery returns,
\* which is the lexicographic order of the deduplicated links (case ignored
\* here), and that order is the same for any two runs that discover the same
\* set of links.
C17_OrderDeterminedBySet ==
  (pc = "fetch" /\ status = "running") =>
     /\ OrderedIgnoringCase(links)
     /\ \A other \in SortedByLower(ElemsOf(all_links)) : other = links

\* the detail links that the anchors of a page give
AnchorLinks(page) ==
  {normalize_url(a) : a \in {h \in ElemsOf(page.anchors) : dtc_pat(PathOf(normalize_url(h)))}}

\* C19 as claimed: when at least one anchor of a listing page matches the
\* detail-path grammar, the page's detail links are exactly the matching
\* anchors; links from code-shaped words of the text are added only when no
\* anchor matches.
C19_TextOnlyWithoutAnchors ==
  (pc = "extract" /\ status = "running" /\ dpos = 2 /\ Shown(lastGet) = "ok") =>
     LET page == PageAt(pages[1], lastGet)
     IN AnchorLinks(page) # {} => ElemsOf(all_links) = AnchorLinks(page)

\* the fetches discover_listing_pages has made, those of the extraction
\* that follows left out
BfsFetches ==
  IF pc = "bfs" THEN Len(getLog)
  ELSE IF pc = "extract" THEN Len(getLog) - (dpos - 1) - (IF status = "crashed" THEN 1 ELSE 0)
  ELSE Len(getLog) - Len(pages)

\* C20: with a page cap N >= 1, discover_listing_pages fetches at most N
\* pages and returns at most N pages; it is still running only while
\* fewer than N pages are recorded; and the step that records the N-th page
\* returns at once, with nothing added to the queue.
C20_CapStopsDiscovery ==
  /\ [](max_pages >= 1 =>
          /\ BfsFetches <= max_pages
          /\ Len(pages) <= max_pages
          /\ (pc = "bfs" /\ status = "running") => Len(pages) < max_pages)
  /\ [][ (max_pages >= 1 /\ pc = "bfs" /\ getLog' # getLog /\ ~lastGet'.raised
            /\ Len(pages) + 1 = max_pages)
         => (pc' = "extract" /\ q' = Tail(q)) ]_vars

\* C20's case: the cap was reached while the queue still held links
C20_Witness ==
  /\ max_pages >= 2
  /\ pc = "extract"
  /\ Len(pages) = max_pages
  /\ q # <<>>

(***************************************************************************)
(* discover_listing_pages alone, without a page cap                        *)
(***************************************************************************)
\* discover_listing_pages is called with max_pages None
InitBfs ==
  /\ CodecIdle
  /\ ParseIdle
  /\ MainIdle
  /\ status = "running"
  /\ pc = "bfs"
  /\ site \in Sites(MaxAnchors)
  /\ max_pages = 0
  /\ no_warmup = TRUE
  /\ flush_every = 1
  /\ lastGet = NoGet
  /\ DiscoveryStart
  /\ FilesOpened

NextBfs == BfsStep \/ BfsReturn

\* the function is sequential: while it has a next step, it takes it
SpecBfs == InitBfs /\ [][NextBfs]_vars /\ WF_vars(NextBfs)

\* the hrefs of the site's link graph: the start URL, the anchors of the
\* listing pages and those of a detail page
GraphUrls ==
  {list_url} \cup ElemsOf(DetailPage.anchors)
    \cup UNION {ElemsOf(site[k].anchors) : k \in DOMAIN site}
\* the distinct normalized URLs of the graph that are in the namespace
NamespaceKeys == {PageKey(u) : u \in {h \in GraphUrls : StartsWith(h, list_url)}}

\* C21: without a page cap discover_listing_pages terminates on every site
\* under test, cycles of links included: it returns or its fetch raises; it
\* fetches no normalized URL twice, so that its fetches never outnumber the
\* distinct normalized URLs of the namespace; and when it returns, the queue
\* is empty.
C21_BfsTerminates ==
  /\ <>(pc # "bfs" \/ status # "running")
  /\ [](LET keys == FetchKeys
        IN /\ \A n \in 1..Len(keys) : CountOf(keys, keys[n]) = 1
           /\ Len(keys) <= Cardinality(NamespaceKeys))
  /\ []((pc = "extract" /\ status = "running") => q = <<>>)

\* C21's case: the crawl has returned from a site with a cycle of links
\* (the second listing page links to itself, under both orders of its
\* query), so that its URL was enqueued three times and fetched once
C21_Witness ==
  /\ pc = "extract"
  /\ status = "running"
  /\ q = <<>>
  /\ UrlPageAB \in ElemsOf(site[normalize_url(list_url)].anchors)
  /\ UrlPageBA \in ElemsOf(site[normalize_url(UrlPageAB)].anchors)
  /\ UrlPageAB \in ElemsOf(site[normalize_url(UrlPageAB)].anchors)
  /\ Len(pages) = 2

(***************************************************************************)
(* Properties of the outputs of a completed run                            *)
(***************************************************************************)
\* the URLs of the records in the aggregate <OEM>_dtcs.json, in order
AggregateUrls == [n \in 1..Len(aggregate.content) |-> aggregate.content[n].url]
\* the links whose processing ended in an ErrorRecord
ErrorUrls == {jsonl[n].url : n \in {m \in 1..Len(jsonl) : jsonl[m].kind = "error"}}

\* C22 as claimed: at the end of a completed run the aggregate and the
\* summary CSV hold the same records: one for every link that was processed
\* without an ErrorRecord, in processing order, and none for a link that
\* has an ErrorRecord in the stream.
C22_AggregateIsSummary ==
  status = "done" =>
     /\ aggregate.written
     /\ AggregateUrls = SelectSeq(links, LAMBDA u : u \notin ErrorUrls)
     /\ wide = AggregateUrls

\* C23 as claimed: on every exit of scrape_oem after the three files were
\* opened (completion, an interruption inside the fetch loop, an exception
\* that leaves scrape_oem, those of warmup and discovery included) the
\* files are flushed and closed when scrape_oem is left.
C23_ClosedOnEveryExit ==
  (status = "done" \/ status = "crashed" \/ (status = "interrupted" /\ pc \in LoopPcs)) =>
     /\ closed
     /\ flushed = FlushedAll

====
